---- MODULE Spec2Model ----
(***************************************************************************)
(* Flight-control core of the drone control panel (DroneController in      *)
(* drone_controller.py): connection lifecycle, takeoff/landing state,      *)
(* command throttle, IMU stabilisation, discrete movement with the         *)
(* continuous-control fallback pulse.                                      *)
(*                                                                         *)
(* Time is counted in tenths of a second: time.time() is the variable now, *)
(* 0.5 s is 5, 3.0 s is 30, 0.3 s / 0.4 s are 3 / 4.  Floating-point       *)
(* multipliers are counted in hundredths (1.0 is 100, 3.0 is 300).         *)
(* A method of the controller runs on its caller's thread and reads the    *)
(* clock once; the link primitives are an external collaborator whose      *)
(* calls either return or raise.                                           *)
(***************************************************************************)
EXTENDS Integers, Sequences, FiniteSets, TLC

VARIABLES
    now,                \* time.time(), tenths of a second
    tello,              \* self.tello: None or the link handle
    connection_status,  \* self.connection_status
    is_flying,          \* self.is_flying
    imu_ready,          \* self.imu_ready
    takeoff_time,       \* self.takeoff_time
    last_command_time,  \* self.last_command_time
    speed_multiplier,   \* self.speed_multiplier, hundredths
    rc_mode_active,     \* self.rc_mode_active
    current_rc_values,  \* self.current_rc_values
    command_queue,      \* self.command_queue
    imu_threads,        \* running notify_imu_ready threads
    pulse_timers,       \* pending threading.Timer callbacks of the fallback pulse
    connect_threads,    \* position of each running connect() thread
    ui,                 \* the input tracking of DroneInterface: active_keys, shift_pressed, ctrl_pressed
    obs,                \* the operation performed by the last step and its outcome
    linkCalls,          \* the link primitives invoked by the last step, in order
    lastAccept,         \* history: time of the last can_execute_command() that returned True
    e2ePulse            \* history: the current flight began with an immediate forward pulse

\* the fields of the controller
ctrl == <<tello, connection_status, is_flying, imu_ready, takeoff_time,
          last_command_time, speed_multiplier, rc_mode_active, current_rc_values,
          command_queue>>

vars == <<now, ctrl, imu_threads, pulse_timers, connect_threads, ui, obs, linkCalls,
          lastAccept, e2ePulse>>

-----------------------------------------------------------------------------
(* Bounds of the model *)

StartTime == 30      \* value of the clock at construction
Horizon == 40        \* the clock is followed for this many tenths of a second
ClockStep == 5       \* the clock is sampled every ClockStep tenths of a second
MaxPulses == 1       \* pending fallback-pulse timers followed at a time
MaxQueue == 3        \* commands held by the queue clear_command_queue() is given
MaxConnects == 1     \* connect() threads running at a time

\* the last instant at which the clock is sampled
LastInstant == StartTime + (Horizon \div ClockStep) * ClockStep

(* Program constants *)

command_cooldown == 5            \* 0.5 s
imu_stabilization_delay == 30    \* 3.0 s
base_rc_speed == 50
MaxRcSpeed == 100
PulseDuration == 3               \* 0.3 s
PulseDurationBoost == 4          \* 0.4 s
Scale == 100                     \* the multiplier 1.0
REAL_MOVEMENT_SPEED == 30
REAL_VERTICAL_SPEED == 30
REAL_ROTATION_SPEED == 45

None == "None"
Handle == "Tello"
NoTime == -1

\* the values set_speed_multiplier is called with: 1.0, 1.25, 3.0
Multipliers == {100, 125, 300}

MovePrims == {"move_forward", "move_back", "move_left", "move_right",
              "move_up", "move_down", "rotate_clockwise", "rotate_counter_clockwise"}

ZeroRc == [left_right |-> 0, forward_back |-> 0, up_down |-> 0, yaw |-> 0]

\* DroneInterface.__init__: no key held
NoInput == [active_keys |-> {}, shift_pressed |-> FALSE, ctrl_pressed |-> FALSE]

-----------------------------------------------------------------------------
(* Helpers *)

\* one invocation of a link primitive; ok = FALSE when the link raises
Call(prim, args, ok) == [prim |-> prim, args |-> args, ok |-> ok]

\* Python int(): truncation toward zero of n / d
Trunc(n, d) == IF n >= 0 THEN n \div d ELSE -((-n) \div d)

Min(a, b) == IF a <= b THEN a ELSE b

\* what the last step did: the operation, its argument, the value it returned
\* ("raise" when it raised), the value execute_command returned and the value
\* can_execute_command returned ("notcalled" when it was not called)
Obs(op, arg, ret, exec, throttle) ==
    [op |-> op, arg |-> arg, ret |-> ret, exec |-> exec, throttle |-> throttle]

Quiet(op) == Obs(op, None, "none", "notcalled", "notcalled")

Raised(op, arg) == Obs(op, arg, "raise", "notcalled", "notcalled")

RetOf(b) == IF b THEN "true" ELSE "false"

\* history of accepted throttle checks
Accept(throttle) == IF throttle = "true" THEN now ELSE lastAccept

-----------------------------------------------------------------------------
(* Throttle and dispatcher *)

\* can_execute_command() at clock t with last_command_time lct:
\* the value returned and the new last_command_time
can_execute_command_nostamp(t, lct) ==
    [ret |-> t - lct >= command_cooldown, lct |-> lct]

\* can_execute_command() with no cooldown
can_execute_command_always(t, lct) == [ret |-> TRUE, lct |-> t]

\* can_execute_command() that stamps the time of a refused call too
can_execute_command_stamp_rejected(t, lct) ==
    [ret |-> t - lct >= command_cooldown, lct |-> t]

can_execute_command(t, lct) ==
    IF t - lct >= command_cooldown
    THEN [ret |-> TRUE, lct |-> t]
    ELSE [ret |-> FALSE, lct |-> lct]

\* execute_command(command_func, *args): the value returned, the new
\* last_command_time, the link calls made and what can_execute_command returned;
\* ok is the outcome of the link call
execute_command_anystatus(prim, args, ok) ==
    LET c == can_execute_command(now, last_command_time) IN
    IF tello /= None /\ c.ret
    THEN [ret |-> ok, lct |-> c.lct,
          calls |-> <<Call(prim, args, ok)>>, throttle |-> "true"]
    ELSE [ret |-> FALSE, lct |-> c.lct, calls |-> <<>>,
          throttle |-> "false"]

execute_command_swallow(prim, args, ok) ==
    IF tello /= None /\ connection_status = "Connected"
    THEN LET c == can_execute_command(now, last_command_time) IN
         IF c.ret
         THEN [ret |-> TRUE, lct |-> c.lct,
               calls |-> <<Call(prim, args, ok)>>, throttle |-> "true"]
         ELSE [ret |-> FALSE, lct |-> c.lct, calls |-> <<>>,
               throttle |-> "false"]
    ELSE [ret |-> FALSE, lct |-> last_command_time, calls |-> <<>>,
          throttle |-> "notcalled"]

execute_command(prim, args, ok) ==
    IF tello /= None /\ connection_status = "Connected"
    THEN LET c == can_execute_command(now, last_command_time) IN
         IF c.ret
         THEN [ret |-> ok, lct |-> c.lct,
               calls |-> <<Call(prim, args, ok)>>, throttle |-> "true"]
         ELSE [ret |-> FALSE, lct |-> c.lct, calls |-> <<>>,
               throttle |-> "false"]
    ELSE [ret |-> FALSE, lct |-> last_command_time, calls |-> <<>>,
          throttle |-> "notcalled"]

\* check_imu_ready(): the value returned and the new imu_ready
check_imu_ready_late ==
    IF ~is_flying
    THEN [ret |-> FALSE, imu_ready |-> imu_ready]
    ELSE IF now - takeoff_time > imu_stabilization_delay
         THEN [ret |-> TRUE, imu_ready |-> TRUE]
         ELSE [ret |-> imu_ready, imu_ready |-> imu_ready]

check_imu_ready ==
    IF ~is_flying
    THEN [ret |-> FALSE, imu_ready |-> imu_ready]
    ELSE IF now - takeoff_time >= imu_stabilization_delay
         THEN [ret |-> TRUE, imu_ready |-> TRUE]
         ELSE [ret |-> imu_ready, imu_ready |-> imu_ready]

-----------------------------------------------------------------------------
Init ==
    /\ now = StartTime
    /\ tello = None
    /\ connection_status = "Disconnected"
    /\ is_flying = FALSE
    /\ imu_ready = FALSE
    /\ takeoff_time = 0
    /\ last_command_time = 0
    /\ speed_multiplier = Scale
    /\ rc_mode_active = FALSE
    /\ current_rc_values = ZeroRc
    /\ command_queue = <<>>
    /\ imu_threads = {}
    /\ pulse_timers = {}
    /\ connect_threads = <<>>
    /\ ui = NoInput
    /\ obs = Quiet("init")
    /\ linkCalls = <<>>
    /\ lastAccept = NoTime
    /\ e2ePulse = FALSE

-----------------------------------------------------------------------------
(* The clock.  The callers of the controller act at the instants           *)
(* StartTime + k * ClockStep, between which the clock advances.  A         *)
(* sleeping thread or a timer that is due runs before the clock advances   *)
(* again: it runs no earlier than its due time and less than ClockStep     *)
(* after it.                                                               *)

DueTimes == {th.wake : th \in imu_threads} \cup pulse_timers

Tick ==
    /\ UNCHANGED <<connect_threads, ui>>
    /\ now + ClockStep <= LastInstant
    /\ \A th \in imu_threads : th.pc = "sleep"
    /\ \A due \in DueTimes : now < due
    /\ now' = now + ClockStep
    /\ obs' = Quiet("tick")
    /\ linkCalls' = <<>>
    /\ UNCHANGED <<ctrl, imu_threads, pulse_timers, lastAccept, e2ePulse>>

-----------------------------------------------------------------------------
(* connect() and update_telemetry() *)

\* update_telemetry() with self.tello = handle and the status status: the
\* getters are called in order until one raises
update_telemetry(handle, status, okB, okH, okF) ==
    IF handle /= None /\ status = "Connected"
    THEN IF ~okB THEN <<Call("get_battery", <<>>, FALSE)>>
         ELSE IF ~okH THEN <<Call("get_battery", <<>>, TRUE), Call("get_height", <<>>, FALSE)>>
         ELSE <<Call("get_battery", <<>>, TRUE), Call("get_height", <<>>, TRUE),
                Call("get_flight_time", <<>>, okF)>>
    ELSE <<>>

\* a complete call of connect(); ok is the outcome of the link's connect primitive
Connect(ok, okB, okH, okF) ==
    /\ UNCHANGED <<connect_threads, ui>>
    /\ tello' = Handle
    /\ connection_status' = IF ok THEN "Connected" ELSE "Error"
    /\ linkCalls' = <<Call("connect", <<>>, ok)>> \o
                    (IF ok THEN update_telemetry(Handle, "Connected", okB, okH, okF) ELSE <<>>)
    /\ obs' = Obs("connect", None, RetOf(ok), "notcalled", "notcalled")
    /\ UNCHANGED <<now, is_flying, imu_ready, takeoff_time, last_command_time,
                   speed_multiplier, rc_mode_active, current_rc_values, command_queue,
                   imu_threads, pulse_timers, lastAccept, e2ePulse>>

-----------------------------------------------------------------------------
(* stop_rc_mode() and disconnect() *)

\* the link calls of stop_rc_mode(); okStop is the outcome of the send
stop_rc_mode_calls(okStop) ==
    IF rc_mode_active /\ tello /= None /\ connection_status = "Connected"
    THEN <<Call("send_rc_control", <<0, 0, 0, 0>>, okStop)>>
    ELSE <<>>

\* the link calls of lines 79-85 of disconnect()
disconnect_calls_endfirst(okLand, okEnd) ==
    IF tello = None THEN <<>>
    ELSE IF ~okEnd THEN <<Call("end", <<>>, FALSE)>>
    ELSE IF is_flying
         THEN <<Call("end", <<>>, TRUE), Call("land", <<>>, okLand)>>
         ELSE <<Call("end", <<>>, TRUE)>>

disconnect_calls(okLand, okEnd) ==
    IF tello = None THEN <<>>
    ELSE IF is_flying
         THEN IF okLand
              THEN <<Call("land", <<>>, TRUE), Call("end", <<>>, okEnd)>>
              ELSE <<Call("land", <<>>, FALSE)>>
         ELSE <<Call("end", <<>>, okEnd)>>

Disconnect(okStop, okLand, okEnd) ==
    /\ UNCHANGED <<connect_threads, ui>>
    /\ linkCalls' = stop_rc_mode_calls(okStop) \o disconnect_calls(okLand, okEnd)
    /\ rc_mode_active' = FALSE
    /\ current_rc_values' = IF rc_mode_active THEN ZeroRc ELSE current_rc_values
    /\ connection_status' = "Disconnected"
    /\ tello' = None
    /\ obs' = Quiet("disconnect")
    /\ UNCHANGED <<now, is_flying, imu_ready, takeoff_time, last_command_time,
                   speed_multiplier, command_queue, imu_threads, pulse_timers,
                   lastAccept, e2ePulse>>

-----------------------------------------------------------------------------
(* takeoff(), land() and the notify_imu_ready thread *)

\* line 266: takeoff() returns at once
takeoff_rejected_never == FALSE

takeoff_rejected == is_flying

Takeoff(ok) ==
    /\ UNCHANGED <<connect_threads, ui>>
    /\ IF takeoff_rejected
       THEN /\ obs' = Quiet("takeoff")
            /\ linkCalls' = <<>>
            /\ UNCHANGED <<is_flying, imu_ready, takeoff_time, last_command_time,
                           imu_threads, lastAccept, e2ePulse>>
       ELSE IF tello = None
       THEN \* self.tello.takeoff on None raises AttributeError
            /\ obs' = Raised("takeoff", None)
            /\ linkCalls' = <<>>
            /\ UNCHANGED <<is_flying, imu_ready, takeoff_time, last_command_time,
                           imu_threads, lastAccept, e2ePulse>>
       ELSE LET r == execute_command("takeoff", <<>>, ok) IN
            /\ obs' = Obs("takeoff", None, "none", RetOf(r.ret), r.throttle)
            /\ linkCalls' = r.calls
            /\ last_command_time' = r.lct
            /\ lastAccept' = Accept(r.throttle)
            /\ IF r.ret
               THEN /\ is_flying' = TRUE
                    /\ imu_ready' = FALSE
                    /\ takeoff_time' = now
                    /\ imu_threads' = imu_threads \cup
                          {[wake |-> now + imu_stabilization_delay, pc |-> "sleep"]}
                    /\ now + imu_stabilization_delay <= LastInstant
                    /\ e2ePulse' = FALSE
               ELSE UNCHANGED <<is_flying, imu_ready, takeoff_time, imu_threads,
                                e2ePulse>>
    /\ UNCHANGED <<now, tello, connection_status, speed_multiplier, rc_mode_active,
                   current_rc_values, command_queue, pulse_timers>>

\* land() that marks the drone grounded whatever the dispatch returned
Land_unconditional(ok) ==
    /\ UNCHANGED <<connect_threads, ui>>
    /\ IF ~is_flying
       THEN /\ obs' = Quiet("land")
            /\ linkCalls' = <<>>
            /\ UNCHANGED <<is_flying, imu_ready, last_command_time, lastAccept, e2ePulse>>
       ELSE IF tello = None
       THEN /\ obs' = Raised("land", None)
            /\ linkCalls' = <<>>
            /\ UNCHANGED <<is_flying, imu_ready, last_command_time, lastAccept, e2ePulse>>
       ELSE LET r == execute_command("land", <<>>, ok) IN
            /\ obs' = Obs("land", None, "none", RetOf(r.ret), r.throttle)
            /\ linkCalls' = r.calls
            /\ last_command_time' = r.lct
            /\ lastAccept' = Accept(r.throttle)
            /\ is_flying' = FALSE
            /\ imu_ready' = FALSE
            /\ e2ePulse' = FALSE
    /\ UNCHANGED <<now, tello, connection_status, takeoff_time, speed_multiplier,
                   rc_mode_active, current_rc_values, command_queue, imu_threads,
                   pulse_timers>>

Land(ok) ==
    /\ UNCHANGED <<connect_threads, ui>>
    /\ IF ~is_flying
       THEN /\ obs' = Quiet("land")
            /\ linkCalls' = <<>>
            /\ UNCHANGED <<is_flying, imu_ready, last_command_time, lastAccept, e2ePulse>>
       ELSE IF tello = None
       THEN \* self.tello.land on None raises AttributeError
            /\ obs' = Raised("land", None)
            /\ linkCalls' = <<>>
            /\ UNCHANGED <<is_flying, imu_ready, last_command_time, lastAccept, e2ePulse>>
       ELSE LET r == execute_command("land", <<>>, ok) IN
            /\ obs' = Obs("land", None, "none", RetOf(r.ret), r.throttle)
            /\ linkCalls' = r.calls
            /\ last_command_time' = r.lct
            /\ lastAccept' = Accept(r.throttle)
            /\ IF r.ret
               THEN /\ is_flying' = FALSE
                    /\ imu_ready' = FALSE
                    /\ e2ePulse' = FALSE
               ELSE UNCHANGED <<is_flying, imu_ready, e2ePulse>>
    /\ UNCHANGED <<now, tello, connection_status, takeoff_time, speed_multiplier,
                   rc_mode_active, current_rc_values, command_queue, imu_threads,
                   pulse_timers>>

\* notify_imu_ready, lines 280-281: the sleep has ended, is_flying is tested
NotifyCheck(th) ==
    /\ UNCHANGED <<connect_threads, ui>>
    /\ th \in imu_threads
    /\ th.pc = "sleep"
    /\ now >= th.wake
    /\ imu_threads' = IF is_flying
                      THEN (imu_threads \ {th}) \cup {[th EXCEPT !.pc = "set"]}
                      ELSE imu_threads \ {th}
    /\ obs' = Quiet("notify_check")
    /\ linkCalls' = <<>>
    /\ UNCHANGED <<now, ctrl, pulse_timers, lastAccept, e2ePulse>>

\* notify_imu_ready, line 282
NotifySet(th) ==
    /\ UNCHANGED <<connect_threads, ui>>
    /\ th \in imu_threads
    /\ th.pc = "set"
    /\ imu_ready' = TRUE
    /\ imu_threads' = imu_threads \ {th}
    /\ obs' = Quiet("notify_set")
    /\ linkCalls' = <<>>
    /\ UNCHANGED <<now, tello, connection_status, is_flying, takeoff_time,
                   last_command_time, speed_multiplier, rc_mode_active,
                   current_rc_values, command_queue, pulse_timers, lastAccept,
                   e2ePulse>>

-----------------------------------------------------------------------------
(* Movement dispatch, the fallback pulse and flip_forward() *)

\* the base magnitude each movement method passes to execute_movement_command
BaseMagnitude(prim) ==
    CASE prim \in {"move_forward", "move_back", "move_left", "move_right"} -> REAL_MOVEMENT_SPEED
      [] prim \in {"move_up", "move_down"} -> REAL_VERTICAL_SPEED
      [] prim \in {"rotate_clockwise", "rotate_counter_clockwise"} -> REAL_ROTATION_SPEED

\* rc_speed = min(int(base_rc_speed * self.speed_multiplier), 100)
rc_speed == Min(Trunc(base_rc_speed * speed_multiplier, Scale), MaxRcSpeed)

\* the arguments of send_rc_control(left_right, forward_back, up_down, yaw)
\* chosen by the if/elif chain of execute_rc_movement
PulseVector_swapped(prim) ==
    CASE prim = "move_forward"             -> <<0, rc_speed, 0, 0>>
      [] prim = "move_back"                -> <<0, -rc_speed, 0, 0>>
      [] prim = "move_left"                -> <<rc_speed, 0, 0, 0>>
      [] prim = "move_right"               -> <<-rc_speed, 0, 0, 0>>
      [] prim = "move_up"                  -> <<0, 0, rc_speed, 0>>
      [] prim = "move_down"                -> <<0, 0, -rc_speed, 0>>
      [] prim = "rotate_clockwise"         -> <<0, 0, 0, rc_speed>>
      [] prim = "rotate_counter_clockwise" -> <<0, 0, 0, -rc_speed>>

PulseVector(prim) ==
    CASE prim = "move_forward"             -> <<0, rc_speed, 0, 0>>
      [] prim = "move_back"                -> <<0, -rc_speed, 0, 0>>
      [] prim = "move_left"                -> <<-rc_speed, 0, 0, 0>>
      [] prim = "move_right"               -> <<rc_speed, 0, 0, 0>>
      [] prim = "move_up"                  -> <<0, 0, rc_speed, 0>>
      [] prim = "move_down"                -> <<0, 0, -rc_speed, 0>>
      [] prim = "rotate_clockwise"         -> <<0, 0, 0, rc_speed>>
      [] prim = "rotate_counter_clockwise" -> <<0, 0, 0, -rc_speed>>

\* duration = 0.4 if self.speed_multiplier > 1.0 else 0.3
pulse_duration == IF speed_multiplier > Scale THEN PulseDurationBoost ELSE PulseDuration

\* execute_rc_movement(command_func, *args): the value returned, the link
\* calls made and the pending timers; ok is the outcome of the send
execute_rc_movement_notimer(prim, ok) ==
    IF tello = None \/ connection_status /= "Connected"
    THEN [ret |-> FALSE, calls |-> <<>>, timers |-> pulse_timers]
    ELSE [ret |-> ok,
          calls |-> <<Call("send_rc_control", PulseVector(prim), ok)>>,
          timers |-> pulse_timers]

\* execute_rc_movement() that asks the throttle before it sends
execute_rc_movement_throttled(prim, ok) ==
    IF \/ tello = None
       \/ connection_status /= "Connected"
       \/ ~can_execute_command(now, last_command_time).ret
    THEN [ret |-> FALSE, calls |-> <<>>, timers |-> pulse_timers]
    ELSE IF ok
         THEN [ret |-> TRUE,
               calls |-> <<Call("send_rc_control", PulseVector(prim), TRUE)>>,
               timers |-> pulse_timers \cup {now + pulse_duration}]
         ELSE [ret |-> FALSE,
               calls |-> <<Call("send_rc_control", PulseVector(prim), FALSE)>>,
               timers |-> pulse_timers]

execute_rc_movement(prim, ok) ==
    IF tello = None \/ connection_status /= "Connected"
    THEN [ret |-> FALSE, calls |-> <<>>, timers |-> pulse_timers]
    ELSE IF ok
         THEN [ret |-> TRUE,
               calls |-> <<Call("send_rc_control", PulseVector(prim), TRUE)>>,
               timers |-> pulse_timers \cup {now + pulse_duration}]
         ELSE [ret |-> FALSE,
               calls |-> <<Call("send_rc_control", PulseVector(prim), FALSE)>>,
               timers |-> pulse_timers]

\* modified_args: int(arg * self.speed_multiplier)
modified_arg_unscaled(arg) == arg

modified_arg(arg) == Trunc(arg * speed_multiplier, Scale)

\* line 194 of execute_movement_command
movement_rejected_never == FALSE

movement_rejected == ~is_flying

\* execute_movement_command(command_func, arg)
execute_movement_command(prim, arg, ok) ==
    IF movement_rejected
    THEN [ret |-> FALSE, exec |-> "notcalled", lct |-> last_command_time,
          calls |-> <<>>, throttle |-> "notcalled", imu_ready |-> imu_ready,
          timers |-> pulse_timers]
    ELSE LET c == check_imu_ready IN
         IF ~c.ret
         THEN LET p == execute_rc_movement(prim, ok) IN
              [ret |-> p.ret, exec |-> "notcalled", lct |-> last_command_time,
               calls |-> p.calls, throttle |-> "notcalled",
               imu_ready |-> c.imu_ready, timers |-> p.timers]
         ELSE LET r == execute_command(prim, <<modified_arg(arg)>>, ok) IN
              [ret |-> r.ret, exec |-> RetOf(r.ret), lct |-> r.lct,
               calls |-> r.calls, throttle |-> r.throttle,
               imu_ready |-> c.imu_ready, timers |-> pulse_timers]

\* the first request after a successful takeoff is a forward pulse that was sent
FirstForwardPulse(prim, m) ==
    /\ prim = "move_forward"
    /\ obs.op = "takeoff" /\ obs.exec = "true"
    /\ m.ret /\ m.exec = "notcalled"

\* move_forward() ... rotate_counter_clockwise()
Move(prim, ok) ==
    /\ UNCHANGED <<connect_threads, ui>>
    /\ IF tello = None
       THEN \* self.tello.move_forward on None raises AttributeError
            /\ obs' = Raised("move", prim)
            /\ linkCalls' = <<>>
            /\ UNCHANGED <<imu_ready, last_command_time, pulse_timers, lastAccept,
                           e2ePulse>>
       ELSE LET m == execute_movement_command(prim, BaseMagnitude(prim), ok) IN
            /\ obs' = Obs("move", prim, RetOf(m.ret), m.exec, m.throttle)
            /\ linkCalls' = m.calls
            /\ imu_ready' = m.imu_ready
            /\ last_command_time' = m.lct
            /\ lastAccept' = Accept(m.throttle)
            /\ pulse_timers' = m.timers
            /\ Cardinality(m.timers) <= MaxPulses
            /\ \A due \in m.timers : due <= LastInstant
            /\ e2ePulse' = (e2ePulse \/ FirstForwardPulse(prim, m))
    /\ UNCHANGED <<now, tello, connection_status, is_flying, takeoff_time,
                   speed_multiplier, rc_mode_active, current_rc_values,
                   command_queue, imu_threads>>

\* the Timer callback of the pulse: lambda: self.tello.send_rc_control(0, 0, 0, 0)
PulseFire(due, ok) ==
    /\ UNCHANGED <<connect_threads, ui>>
    /\ due \in pulse_timers
    /\ now >= due
    /\ pulse_timers' = pulse_timers \ {due}
    /\ IF tello = None
       THEN /\ obs' = Raised("pulse_stop", None)
            /\ linkCalls' = <<>>
       ELSE /\ obs' = IF ok THEN Quiet("pulse_stop") ELSE Raised("pulse_stop", None)
            /\ linkCalls' = <<Call("send_rc_control", <<0, 0, 0, 0>>, ok)>>
    /\ UNCHANGED <<now, ctrl, imu_threads, lastAccept, e2ePulse>>

\* lines 337-343 of flip_forward()
flip_rejected_grounded == ~is_flying

flip_rejected == ~is_flying \/ ~imu_ready

FlipForward(ok) ==
    /\ UNCHANGED <<connect_threads, ui>>
    /\ IF flip_rejected
       THEN /\ obs' = Obs("flip_forward", None, "false", "notcalled", "notcalled")
            /\ linkCalls' = <<>>
            /\ UNCHANGED <<last_command_time, lastAccept>>
       ELSE IF tello = None
       THEN \* self.tello.flip_forward on None raises AttributeError
            /\ obs' = Raised("flip_forward", None)
            /\ linkCalls' = <<>>
            /\ UNCHANGED <<last_command_time, lastAccept>>
       ELSE LET r == execute_command("flip_forward", <<>>, ok) IN
            /\ obs' = Obs("flip_forward", None, RetOf(r.ret), RetOf(r.ret), r.throttle)
            /\ linkCalls' = r.calls
            /\ last_command_time' = r.lct
            /\ lastAccept' = Accept(r.throttle)
    /\ UNCHANGED <<now, tello, connection_status, is_flying, imu_ready, takeoff_time,
                   speed_multiplier, rc_mode_active, current_rc_values, command_queue,
                   imu_threads, pulse_timers, e2ePulse>>

-----------------------------------------------------------------------------
(* set_speed_multiplier() and emergency_stop() *)

SetSpeedMultiplier(m) ==
    /\ UNCHANGED <<connect_threads, ui>>
    /\ speed_multiplier' = m
    /\ obs' = Quiet("set_speed_multiplier")
    /\ linkCalls' = <<>>
    /\ UNCHANGED <<now, tello, connection_status, is_flying, imu_ready, takeoff_time,
                   last_command_time, rc_mode_active, current_rc_values,
                   command_queue, imu_threads, pulse_timers, lastAccept, e2ePulse>>

EmergencyStop_flying_only(ok) ==
    /\ UNCHANGED <<connect_threads, ui>>
    /\ linkCalls' = IF tello /= None /\ connection_status = "Connected" /\ is_flying
                    THEN <<Call("send_rc_control", <<0, 0, 0, 0>>, ok)>>
                    ELSE <<>>
    /\ obs' = Quiet("emergency_stop")
    /\ UNCHANGED <<now, ctrl, imu_threads, pulse_timers, lastAccept, e2ePulse>>

EmergencyStop(ok) ==
    /\ UNCHANGED <<connect_threads, ui>>
    /\ linkCalls' = IF tello /= None /\ connection_status = "Connected"
                    THEN <<Call("send_rc_control", <<0, 0, 0, 0>>, ok)>>
                    ELSE <<>>
    /\ obs' = Quiet("emergency_stop")
    /\ UNCHANGED <<now, ctrl, imu_threads, pulse_timers, lastAccept, e2ePulse>>

-----------------------------------------------------------------------------
(* Continuous (rc) mode: start_rc_mode(), stop_rc_mode(),                  *)
(* calculate_rc_values() and update_rc_control()                           *)

\* the direction and rotation keys calculate_rc_values looks for
Keys == {"K_a", "K_d", "K_w", "K_s", "K_i", "K_k", "K_q", "K_e"}

base_speed == 50

\* what a held key adds to or takes from its axis
Held(key, active_keys, speed) == IF key \in active_keys THEN speed ELSE 0

\* calculate_rc_values(active_keys) with an if/elif chain on each axis
calculate_rc_values_elif(active_keys) ==
    LET speed == Min(Trunc(base_speed * speed_multiplier, Scale), MaxRcSpeed) IN
    [left_right   |-> IF "K_a" \in active_keys THEN -speed
                      ELSE Held("K_d", active_keys, speed),
     forward_back |-> IF "K_w" \in active_keys THEN speed
                      ELSE -Held("K_s", active_keys, speed),
     up_down      |-> IF "K_i" \in active_keys THEN speed
                      ELSE -Held("K_k", active_keys, speed),
     yaw          |-> IF "K_q" \in active_keys THEN -speed
                      ELSE Held("K_e", active_keys, speed)]

\* calculate_rc_values(active_keys): the dictionary returned
calculate_rc_values(active_keys) ==
    LET speed == Min(Trunc(base_speed * speed_multiplier, Scale), MaxRcSpeed) IN
    [left_right   |-> (0 - Held("K_a", active_keys, speed)) + Held("K_d", active_keys, speed),
     forward_back |-> (0 + Held("K_w", active_keys, speed)) - Held("K_s", active_keys, speed),
     up_down      |-> (0 + Held("K_i", active_keys, speed)) - Held("K_k", active_keys, speed),
     yaw          |-> (0 - Held("K_q", active_keys, speed)) + Held("K_e", active_keys, speed)]

\* the arguments of send_rc_control for a dictionary of rc values
RcArgs(values) == <<values.left_right, values.forward_back, values.up_down, values.yaw>>

\* a call of calculate_rc_values(active_keys) by itself
CalculateRcValues(active_keys) ==
    /\ UNCHANGED <<connect_threads, ui>>
    /\ obs' = Obs("calculate_rc_values", active_keys,
                  calculate_rc_values(active_keys), "notcalled", "notcalled")
    /\ linkCalls' = <<>>
    /\ UNCHANGED <<now, ctrl, imu_threads, pulse_timers, lastAccept, e2ePulse>>

\* start_rc_mode() that does not look at the link
StartRcMode_unconditional ==
    /\ UNCHANGED <<connect_threads, ui>>
    /\ rc_mode_active' = TRUE
    /\ obs' = Quiet("start_rc_mode")
    /\ linkCalls' = <<>>
    /\ UNCHANGED <<now, tello, connection_status, is_flying, imu_ready, takeoff_time,
                   last_command_time, speed_multiplier, current_rc_values,
                   command_queue, imu_threads, pulse_timers, lastAccept, e2ePulse>>

StartRcMode ==
    /\ UNCHANGED <<connect_threads, ui>>
    /\ rc_mode_active' =
          (rc_mode_active \/ (tello /= None /\ connection_status = "Connected"))
    /\ obs' = Quiet("start_rc_mode")
    /\ linkCalls' = <<>>
    /\ UNCHANGED <<now, tello, connection_status, is_flying, imu_ready, takeoff_time,
                   last_command_time, speed_multiplier, current_rc_values,
                   command_queue, imu_threads, pulse_timers, lastAccept, e2ePulse>>

StopRcMode(okStop) ==
    /\ UNCHANGED <<connect_threads, ui>>
    /\ rc_mode_active' = FALSE
    /\ current_rc_values' = IF rc_mode_active THEN ZeroRc ELSE current_rc_values
    /\ linkCalls' = stop_rc_mode_calls(okStop)
    /\ obs' = Quiet("stop_rc_mode")
    /\ UNCHANGED <<now, tello, connection_status, is_flying, imu_ready, takeoff_time,
                   last_command_time, speed_multiplier, command_queue, imu_threads,
                   pulse_timers, lastAccept, e2ePulse>>

\* line 428 of update_rc_control: the call returns at once
update_rc_control_skipped_nostatus == ~rc_mode_active \/ tello = None

update_rc_control_skipped ==
    ~rc_mode_active \/ tello = None \/ connection_status /= "Connected"

\* line 436 of update_rc_control
rc_values_changed_always(new_values) == TRUE

rc_values_changed(new_values) == new_values /= current_rc_values

\* update_rc_control(active_keys); ok is the outcome of the send
UpdateRcControl(active_keys, ok) ==
    /\ UNCHANGED <<connect_threads, ui>>
    /\ LET new_values == calculate_rc_values(active_keys) IN
       IF ~update_rc_control_skipped /\ rc_values_changed(new_values)
       THEN /\ current_rc_values' = new_values
            /\ linkCalls' = <<Call("send_rc_control", RcArgs(new_values), ok)>>
       ELSE /\ current_rc_values' = current_rc_values
            /\ linkCalls' = <<>>
    /\ obs' = Obs("update_rc_control", active_keys, "none", "notcalled", "notcalled")
    /\ UNCHANGED <<now, tello, connection_status, is_flying, imu_ready, takeoff_time,
                   last_command_time, speed_multiplier, rc_mode_active,
                   command_queue, imu_threads, pulse_timers, lastAccept, e2ePulse>>

-----------------------------------------------------------------------------
Next ==
    \/ Tick
    \/ \E ok, okB, okH, okF \in BOOLEAN : Connect(ok, okB, okH, okF)
    \/ \E okStop, okLand, okEnd \in BOOLEAN : Disconnect(okStop, okLand, okEnd)
    \/ \E ok \in BOOLEAN : Takeoff(ok)
    \/ \E ok \in BOOLEAN : Land(ok)
    \/ \E th \in imu_threads : NotifyCheck(th)
    \/ \E th \in imu_threads : NotifySet(th)
    \/ \E prim \in MovePrims, ok \in BOOLEAN : Move(prim, ok)
    \/ \E due \in pulse_timers, ok \in BOOLEAN : PulseFire(due, ok)
    \/ \E ok \in BOOLEAN : FlipForward(ok)
    \/ \E m \in Multipliers : SetSpeedMultiplier(m)
    \/ \E ok \in BOOLEAN : EmergencyStop(ok)

Spec == Init /\ [][Next]_vars

\* the clock advances and a thread that can run does run
FairSpec ==
    /\ Spec
    /\ WF_vars(Tick)
    /\ WF_vars(\E th \in imu_threads : NotifyCheck(th))
    /\ WF_vars(\E th \in imu_threads : NotifySet(th))
    /\ WF_vars(\E due \in pulse_timers, ok \in BOOLEAN : PulseFire(due, ok))

-----------------------------------------------------------------------------
(* The controller with continuous mode: the lifecycle and flight            *)
(* operations together with start_rc_mode(), stop_rc_mode() and             *)
(* update_rc_control()                                                      *)

\* the sets of held keys update_rc_control is called with: none, forward,
\* left and right together, back with rotate right
RcKeySets == {{}, {"K_w"}, {"K_a", "K_d"}, {"K_s", "K_e"}}

RcNext ==
    \/ Tick
    \/ \E ok, okB, okH, okF \in BOOLEAN : Connect(ok, okB, okH, okF)
    \/ \E okStop, okLand, okEnd \in BOOLEAN : Disconnect(okStop, okLand, okEnd)
    \/ \E ok \in BOOLEAN : Takeoff(ok)
    \/ \E ok \in BOOLEAN : Land(ok)
    \/ \E th \in imu_threads : NotifyCheck(th)
    \/ \E th \in imu_threads : NotifySet(th)
    \/ \E m \in Multipliers : SetSpeedMultiplier(m)
    \/ \E ok \in BOOLEAN : EmergencyStop(ok)
    \/ StartRcMode
    \/ \E okStop \in BOOLEAN : StopRcMode(okStop)
    \/ \E active_keys \in RcKeySets, ok \in BOOLEAN : UpdateRcControl(active_keys, ok)

RcSpec == Init /\ [][RcNext]_vars

-----------------------------------------------------------------------------
(* calculate_rc_values() by itself, over every set of direction keys and   *)
(* the multipliers set_speed_multiplier stores                             *)

\* the values set_speed_multiplier is called with here: -3.0, 1.0, 1.25, 3.0
CalcMultipliers == {-300, 100, 125, 300}

CalcNext ==
    \/ \E m \in CalcMultipliers : SetSpeedMultiplier(m)
    \/ \E active_keys \in SUBSET Keys : CalculateRcValues(active_keys)

CalcSpec == Init /\ [][CalcNext]_vars

-----------------------------------------------------------------------------
(* clear_command_queue() by itself, on the queues of at most MaxQueue      *)
(* commands a caller has filled self.command_queue with                    *)

\* clear_command_queue(): the queue left and what is printed, the count
\* being len(self.command_queue) evaluated at line 115
clear_command_queue(queue) ==
    IF Len(queue) > 0
    THEN LET cleared == <<>> IN
         [queue |-> cleared, report |-> <<"cleared", Len(cleared)>>]
    ELSE [queue |-> queue, report |-> <<"nothing", 0>>]

ClearCommandQueue ==
    /\ UNCHANGED <<connect_threads, ui>>
    /\ command_queue' = clear_command_queue(command_queue).queue
    /\ obs' = Obs("clear_command_queue", Len(command_queue),
                  clear_command_queue(command_queue).report, "notcalled", "notcalled")
    /\ linkCalls' = <<>>
    /\ UNCHANGED <<now, tello, connection_status, is_flying, imu_ready, takeoff_time,
                   last_command_time, speed_multiplier, rc_mode_active,
                   current_rc_values, imu_threads, pulse_timers, lastAccept, e2ePulse>>

\* the queues of at most MaxQueue commands
Queues == UNION {[1..n -> MovePrims] : n \in 0..MaxQueue}

QueueInit ==
    /\ now = StartTime
    /\ tello = None
    /\ connection_status = "Disconnected"
    /\ is_flying = FALSE
    /\ imu_ready = FALSE
    /\ takeoff_time = 0
    /\ last_command_time = 0
    /\ speed_multiplier = Scale
    /\ rc_mode_active = FALSE
    /\ current_rc_values = ZeroRc
    /\ command_queue \in Queues
    /\ imu_threads = {}
    /\ pulse_timers = {}
    /\ connect_threads = <<>>
    /\ ui = NoInput
    /\ obs = Quiet("init")
    /\ linkCalls = <<>>
    /\ lastAccept = NoTime
    /\ e2ePulse = FALSE

QueueNext == ClearCommandQueue

QueueSpec == QueueInit /\ [][QueueNext]_vars

-----------------------------------------------------------------------------
(* The interface and the connect() thread.  The CONNECT button starts      *)
(* connect() on a thread of its own, which runs line by line beside the    *)
(* interface's thread; the keys and the buttons call the controller only   *)
(* while the status is Connected, the emergency button always.             *)

\* the running connect() threads without thread i, and with thread i at pc
Removed(threads, i) == SubSeq(threads, 1, i - 1) \o SubSeq(threads, i + 1, Len(threads))

At(threads, i, pc) == [threads EXCEPT ![i] = pc]

\* the steps of a connect() thread leave the flight state alone
ConnectFrame ==
    UNCHANGED <<now, is_flying, imu_ready, takeoff_time, last_command_time,
                speed_multiplier, rc_mode_active, current_rc_values, command_queue,
                imu_threads, pulse_timers, ui, lastAccept, e2ePulse>>

\* handle_mouse_click on the connect button: starts connect() on a new thread
\* when the status is Disconnected, calls disconnect() otherwise
UiConnectButton(okStop, okLand, okEnd) ==
    IF connection_status = "Disconnected"
    THEN /\ Len(connect_threads) < MaxConnects
         /\ connect_threads' = Append(connect_threads, "start")
         /\ obs' = Quiet("start_connect")
         /\ linkCalls' = <<>>
         /\ UNCHANGED <<now, ctrl, imu_threads, pulse_timers, ui, lastAccept, e2ePulse>>
    ELSE Disconnect(okStop, okLand, okEnd)

\* line 53: self.connection_status = ConnectionStatus.CONNECTING
ConnectSetConnecting(i) ==
    /\ connect_threads[i] = "start"
    /\ connection_status' = "Connecting"
    /\ connect_threads' = At(connect_threads, i, "new")
    /\ obs' = Quiet("connect")
    /\ linkCalls' = <<>>
    /\ UNCHANGED tello
    /\ ConnectFrame

\* line 54: self.tello = Tello(); the constructor may raise
ConnectNewTello(i, ok) ==
    /\ connect_threads[i] = "new"
    /\ IF ok
       THEN /\ tello' = Handle
            /\ connect_threads' = At(connect_threads, i, "call")
            /\ obs' = Quiet("connect")
            /\ UNCHANGED connection_status
       ELSE /\ connection_status' = "Error"
            /\ connect_threads' = Removed(connect_threads, i)
            /\ obs' = Obs("connect", None, "false", "notcalled", "notcalled")
            /\ UNCHANGED tello
    /\ linkCalls' = <<>>
    /\ ConnectFrame

\* line 55: self.tello.connect is looked up and the link's connect entered;
\* on None the lookup raises and the handler of line 64 runs
ConnectCall(i) ==
    /\ connect_threads[i] = "call"
    /\ IF tello = None
       THEN /\ connection_status' = "Error"
            /\ connect_threads' = Removed(connect_threads, i)
            /\ obs' = Obs("connect", None, "false", "notcalled", "notcalled")
       ELSE /\ connect_threads' = At(connect_threads, i, "linking")
            /\ obs' = Quiet("connect")
            /\ UNCHANGED connection_status
    /\ linkCalls' = <<>>
    /\ UNCHANGED tello
    /\ ConnectFrame

\* the link's connect returns (line 56) or raises (lines 64-71)
ConnectReturn(i, ok) ==
    /\ connect_threads[i] = "linking"
    /\ linkCalls' = <<Call("connect", <<>>, ok)>>
    /\ IF ok
       THEN /\ connection_status' = "Connected"
            /\ connect_threads' = At(connect_threads, i, "telemetry")
            /\ obs' = Quiet("connect")
       ELSE /\ connection_status' = "Error"
            /\ connect_threads' = Removed(connect_threads, i)
            /\ obs' = Obs("connect", None, "false", "notcalled", "notcalled")
    /\ UNCHANGED tello
    /\ ConnectFrame

\* lines 57-63: self.update_telemetry(); return True
ConnectTelemetry(i, okB, okH, okF) ==
    /\ connect_threads[i] = "telemetry"
    /\ linkCalls' = update_telemetry(tello, connection_status, okB, okH, okF)
    /\ connect_threads' = Removed(connect_threads, i)
    /\ obs' = Obs("connect", None, "true", "notcalled", "notcalled")
    /\ UNCHANGED <<tello, connection_status>>
    /\ ConnectFrame

\* handle_key_press, line 82, and GamepadInterface.handle_click, line 296
UiEnabled == connection_status = "Connected"

UiTakeoff(ok) == UiEnabled /\ Takeoff(ok)

UiLand(ok) == UiEnabled /\ Land(ok)

UiMove(prim, ok) == UiEnabled /\ Move(prim, ok)

UiFlipForward(ok) == UiEnabled /\ FlipForward(ok)

\* the operations that run on the thread of the event loop: the handlers
\* of handle_events and handle_mouse_click call them directly
UiThreadOps == {"takeoff", "land", "move", "flip_forward", "emergency_stop",
                "disconnect", "start_connect"}

\* the link primitives that wait for the drone's answer
BlockingPrims == {"connect", "get_battery", "get_height", "get_flight_time",
                  "takeoff", "land", "flip_forward", "end"} \cup MovePrims

ConnNext ==
    \/ \E okStop, okLand, okEnd \in BOOLEAN : UiConnectButton(okStop, okLand, okEnd)
    \/ \E i \in DOMAIN connect_threads : ConnectSetConnecting(i)
    \/ \E i \in DOMAIN connect_threads, ok \in BOOLEAN : ConnectNewTello(i, ok)
    \/ \E i \in DOMAIN connect_threads : ConnectCall(i)
    \/ \E i \in DOMAIN connect_threads, ok \in BOOLEAN : ConnectReturn(i, ok)
    \/ \E i \in DOMAIN connect_threads, okB, okH, okF \in BOOLEAN :
          ConnectTelemetry(i, okB, okH, okF)
    \/ \E ok \in BOOLEAN : UiTakeoff(ok)
    \/ \E ok \in BOOLEAN : UiLand(ok)
    \/ \E prim \in MovePrims, ok \in BOOLEAN : UiMove(prim, ok)
    \/ \E ok \in BOOLEAN : UiFlipForward(ok)
    \/ \E ok \in BOOLEAN : EmergencyStop(ok)

ConnSpec == Init /\ [][ConnNext]_vars

-----------------------------------------------------------------------------
(* The throttle with the clock read every tenth of a second: the commands  *)
(* that go through execute_command, made at any instant inside and outside *)
(* the cooldown window                                                     *)

TickUnit ==
    /\ UNCHANGED <<connect_threads, ui>>
    /\ now + 1 <= LastInstant
    /\ \A th \in imu_threads : th.pc = "sleep"
    /\ \A due \in DueTimes : now < due
    /\ now' = now + 1
    /\ obs' = Quiet("tick")
    /\ linkCalls' = <<>>
    /\ UNCHANGED <<ctrl, imu_threads, pulse_timers, lastAccept, e2ePulse>>

\* the movement method called here
ThrottleMoves == {"rotate_clockwise"}

ThrottleNext ==
    \/ TickUnit
    \/ \E ok, okB, okH, okF \in BOOLEAN : Connect(ok, okB, okH, okF)
    \/ \E ok \in BOOLEAN : Takeoff(ok)
    \/ \E ok \in BOOLEAN : Land(ok)
    \/ \E th \in imu_threads : NotifyCheck(th)
    \/ \E th \in imu_threads : NotifySet(th)
    \/ \E prim \in ThrottleMoves, ok \in BOOLEAN : Move(prim, ok)
    \/ \E due \in pulse_timers, ok \in BOOLEAN : PulseFire(due, ok)
    \/ \E ok \in BOOLEAN : FlipForward(ok)

ThrottleSpec == Init /\ [][ThrottleNext]_vars

-----------------------------------------------------------------------------
(* The keyboard: the KEYDOWN and KEYUP branches of handle_events and the   *)
(* continuous-control part of update()                                     *)

ShiftKeys == {"K_LSHIFT", "K_RSHIFT"}

CtrlKeys == {"K_LCTRL", "K_RCTRL"}

\* the keys of key_commands and of non_movement_commands
CommandKeys == Keys \cup {"K_t", "K_l", "K_h", "K_f"}

NonMovementKeys == {"K_t", "K_l", "K_h", "K_f"}

\* the keys pressed and released here
UiKeys == ShiftKeys \cup CtrlKeys \cup {"K_SPACE", "K_w", "K_d"}

BoostMultiplier == 300     \* set_speed_multiplier(3.0)

\* handle_key_press(key) returns without calling a command of the controller
\* other than clear_command_queue
KeyPressCallsNoCommand(key, ctrl_pressed) ==
    \/ key = "K_SPACE"
    \/ connection_status /= "Connected"
    \/ (ctrl_pressed /\ key \notin NonMovementKeys)
    \/ key \notin CommandKeys

\* the KEYDOWN branch of handle_events for a key that was up, followed by
\* handle_key_press(key)
KeyDown(key) ==
    /\ key \notin ui.active_keys
    /\ KeyPressCallsNoCommand(key, ui.ctrl_pressed \/ key \in CtrlKeys)
    /\ ui' = [active_keys |-> ui.active_keys \cup {key},
              shift_pressed |-> (ui.shift_pressed \/ key \in ShiftKeys),
              ctrl_pressed |-> (ui.ctrl_pressed \/ key \in CtrlKeys)]
    /\ speed_multiplier' = IF key \in ShiftKeys THEN BoostMultiplier ELSE speed_multiplier
    /\ rc_mode_active' =
          IF key \in CtrlKeys
          THEN (rc_mode_active \/ (tello /= None /\ connection_status = "Connected"))
          ELSE rc_mode_active
    /\ command_queue' = IF key = "K_SPACE"
                        THEN clear_command_queue(command_queue).queue
                        ELSE command_queue
    /\ obs' = Obs("key_down", key, "none", "notcalled", "notcalled")
    /\ linkCalls' = <<>>
    /\ UNCHANGED <<now, tello, connection_status, is_flying, imu_ready, takeoff_time,
                   last_command_time, current_rc_values, imu_threads, pulse_timers,
                   connect_threads, lastAccept, e2ePulse>>

\* the KEYUP branch of handle_events for a key that was down
KeyUp(key, okStop) ==
    /\ key \in ui.active_keys
    /\ ui' = [active_keys |-> ui.active_keys \ {key},
              shift_pressed |-> (ui.shift_pressed /\ key \notin ShiftKeys),
              ctrl_pressed |-> (ui.ctrl_pressed /\ key \notin CtrlKeys)]
    /\ speed_multiplier' = IF key \in ShiftKeys THEN Scale ELSE speed_multiplier
    /\ rc_mode_active' = (rc_mode_active /\ key \notin CtrlKeys)
    /\ current_rc_values' = IF key \in CtrlKeys /\ rc_mode_active
                            THEN ZeroRc ELSE current_rc_values
    /\ linkCalls' = IF key \in CtrlKeys THEN stop_rc_mode_calls(okStop) ELSE <<>>
    /\ obs' = Obs("key_up", key, "none", "notcalled", "notcalled")
    /\ UNCHANGED <<now, tello, connection_status, is_flying, imu_ready, takeoff_time,
                   last_command_time, command_queue, imu_threads, pulse_timers,
                   connect_threads, lastAccept, e2ePulse>>

\* lines 139-147 of update(): update_rc_control(self.active_keys) while a
\* control key has been pressed and the status is Connected
UiUpdateRcControl(ok) ==
    /\ ui.ctrl_pressed
    /\ connection_status = "Connected"
    /\ UpdateRcControl(ui.active_keys, ok)

KeyNext ==
    \/ \E key \in UiKeys : KeyDown(key)
    \/ \E key \in UiKeys, okStop \in BOOLEAN : KeyUp(key, okStop)
    \/ \E ok \in BOOLEAN : UiUpdateRcControl(ok)
    \/ \E ok, okB, okH, okF \in BOOLEAN : Connect(ok, okB, okH, okF)
    \/ \E okStop, okLand, okEnd \in BOOLEAN : Disconnect(okStop, okLand, okEnd)

KeySpec == Init /\ [][KeyNext]_vars

-----------------------------------------------------------------------------
(* Properties *)

\* a step of the operation op
Did(op) == obs'.op = op

\* C1: in every reachable state imu_ready is false whenever is_flying is false
C1_ImuReadyOnlyWhileFlying == ~is_flying => ~imu_ready

\* C2: in every reachable state imu_ready is true only if the stabilization
\* delay has elapsed since the current takeoff_time
C2_ImuReadyOnlyAfterDelay ==
    imu_ready => now - takeoff_time >= imu_stabilization_delay

\* C3: a takeoff() made while is_flying is true invokes no link primitive and
\* leaves is_flying, imu_ready, takeoff_time and last_command_time unchanged
C3_TakeoffWhileFlyingIsNoop ==
    [][(Did("takeoff") /\ is_flying) =>
          /\ linkCalls' = <<>>
          /\ UNCHANGED <<is_flying, imu_ready, takeoff_time, last_command_time>>]_vars

\* a takeoff() was made while flying: it neither raised nor reached execute_command
C3_Witness ==
    /\ obs = Quiet("takeoff")
    /\ is_flying
    /\ tello /= None /\ connection_status = "Connected"
    /\ now - last_command_time >= command_cooldown

\* C4: right after a successful takeoff() is_flying is true and imu_ready is
\* false; a poll by a movement request made at or after the stabilization delay
\* sets imu_ready; and while the drone stays flying imu_ready eventually
\* becomes true, by the deferred task alone
C4_ImuReadyAfterTakeoff ==
    /\ [][(Did("takeoff") /\ obs'.exec = "true") => (is_flying' /\ ~imu_ready')]_vars
    /\ [][(Did("move") /\ tello /= None /\ is_flying
             /\ now - takeoff_time >= imu_stabilization_delay) => imu_ready']_vars
    /\ ((is_flying /\ ~imu_ready) ~> (imu_ready \/ ~is_flying))

\* the deferred task has set imu_ready of a drone that stayed flying
C4_Witness ==
    /\ obs = Quiet("notify_set")
    /\ is_flying /\ imu_ready
    /\ now - takeoff_time >= imu_stabilization_delay

\* C5: a can_execute_command() made less than command_cooldown after the last
\* one that returned true returns false, so that two calls that return true
\* are at least command_cooldown apart
C5_ThrottleOncePerWindow ==
    /\ [][(obs'.throttle /= "notcalled" /\ lastAccept /= NoTime
             /\ now' - lastAccept < command_cooldown) => obs'.throttle = "false"]_vars
    /\ [][(obs'.throttle = "true" /\ lastAccept /= NoTime)
             => now' - lastAccept >= command_cooldown]_vars

\* a call was refused inside the window opened by an accepted call
C5_Witness ==
    /\ obs.throttle = "false"
    /\ lastAccept /= NoTime
    /\ now - lastAccept < command_cooldown

\* C6: execute_command called while the status is not Connected (or with no
\* link handle) returns false, invokes no link primitive, does not call
\* can_execute_command and leaves last_command_time unchanged
C6_NotConnectedNoStamp ==
    [][(obs'.exec /= "notcalled" /\ (connection_status /= "Connected" \/ tello = None))
          => /\ obs'.exec = "false"
             /\ obs'.throttle = "notcalled"
             /\ linkCalls' = <<>>
             /\ last_command_time' = last_command_time]_vars

\* takeoff() reached execute_command after a failed connect, with the cooldown elapsed
C6_Witness ==
    /\ obs.op = "takeoff" /\ obs.exec = "false" /\ obs.throttle = "notcalled"
    /\ connection_status = "Error"
    /\ now - last_command_time >= command_cooldown

\* C7: a movement request made while is_flying is false sends nothing to the
\* link, starts no timer, queues nothing and leaves last_command_time unchanged
C7_GroundedMovementRejected ==
    [][(Did("move") /\ ~is_flying)
          => /\ obs'.ret \in {"false", "raise"}
             /\ linkCalls' = <<>>
             /\ pulse_timers' = pulse_timers
             /\ command_queue' = command_queue
             /\ last_command_time' = last_command_time]_vars

\* a movement request was refused on a connected, grounded drone with the cooldown elapsed
C7_Witness ==
    /\ obs.op = "move" /\ obs.ret = "false"
    /\ ~is_flying
    /\ connection_status = "Connected" /\ tello /= None
    /\ now - last_command_time >= command_cooldown

\* the continuous axis and the sign the request prim stands for, in the order
\* (left_right, forward_back, up_down, yaw)
RequestedAxis(prim) ==
    CASE prim = "move_forward"             -> [i |-> 2, sign |-> 1]
      [] prim = "move_back"                -> [i |-> 2, sign |-> -1]
      [] prim = "move_left"                -> [i |-> 1, sign |-> -1]
      [] prim = "move_right"               -> [i |-> 1, sign |-> 1]
      [] prim = "move_up"                  -> [i |-> 3, sign |-> 1]
      [] prim = "move_down"                -> [i |-> 3, sign |-> -1]
      [] prim = "rotate_clockwise"         -> [i |-> 4, sign |-> 1]
      [] prim = "rotate_counter_clockwise" -> [i |-> 4, sign |-> -1]

OnRequestedAxis(call, prim) ==
    /\ call.prim = "send_rc_control"
    /\ call.args[RequestedAxis(prim).i] * RequestedAxis(prim).sign > 0
    /\ \A j \in 1..4 : j /= RequestedAxis(prim).i => call.args[j] = 0

\* C8: a movement request made while flying and before the IMU is ready makes
\* no call but one pulse on the continuous axis of the request, and makes that
\* call when the link is connected
C8_UnstableMovementIsPulse ==
    [][(Did("move") /\ is_flying /\ ~imu_ready
          /\ now - takeoff_time < imu_stabilization_delay)
          => /\ \A k \in DOMAIN linkCalls' : OnRequestedAxis(linkCalls'[k], obs'.arg)
             /\ Len(linkCalls') <= 1
             /\ (tello /= None /\ connection_status = "Connected") => Len(linkCalls') = 1
             /\ obs'.exec = "notcalled"]_vars

\* a counter-clockwise rotation requested during stabilization went out as a
\* negative yaw pulse
C8_Witness ==
    /\ obs.op = "move" /\ obs.arg = "rotate_counter_clockwise"
    /\ is_flying /\ ~imu_ready
    /\ linkCalls = <<Call("send_rc_control", <<0, 0, 0, -50>>, TRUE)>>

\* C9: a move_forward made right after a successful takeoff sends one pulse on
\* the forward axis and no discrete primitive; a move_forward made in that
\* flight once the delay has elapsed (and the cooldown with it) invokes the
\* discrete forward primitive once, with the base distance times
\* speed_multiplier, truncated
C9_EndToEndForward ==
    /\ [][(Did("move") /\ obs'.arg = "move_forward"
             /\ obs.op = "takeoff" /\ obs.exec = "true")
            => /\ Len(linkCalls') = 1
               /\ linkCalls'[1].prim = "send_rc_control"
               /\ linkCalls'[1].args =
                     <<0, Min((base_rc_speed * speed_multiplier) \div Scale, MaxRcSpeed), 0, 0>>]_vars
    /\ [][(Did("move") /\ obs'.arg = "move_forward" /\ e2ePulse
             /\ is_flying /\ now - takeoff_time >= imu_stabilization_delay
             /\ tello /= None /\ connection_status = "Connected"
             /\ now - last_command_time >= command_cooldown)
            => /\ Len(linkCalls') = 1
               /\ linkCalls'[1].prim = "move_forward"
               /\ linkCalls'[1].args =
                     <<(REAL_MOVEMENT_SPEED * speed_multiplier) \div Scale>>]_vars

\* the flight began with a forward pulse and, at multiplier 1.25, the discrete
\* forward primitive was invoked with 37 = int(30 * 1.25)
C9_Witness ==
    /\ e2ePulse
    /\ obs.op = "move" /\ obs.arg = "move_forward"
    /\ speed_multiplier = 125
    /\ linkCalls = <<Call("move_forward", <<37>>, TRUE)>>

\* C10: the flip primitive is invoked only by a flip_forward() made while
\* is_flying and imu_ready are both true; a flip_forward() made while grounded
\* or before imu_ready returns false, makes no link call and leaves
\* last_command_time unchanged
C10_FlipNeedsImuReady ==
    /\ [][\A k \in DOMAIN linkCalls' :
             linkCalls'[k].prim = "flip_forward"
                => (Did("flip_forward") /\ is_flying /\ imu_ready)]_vars
    /\ [][(Did("flip_forward") /\ (~is_flying \/ ~imu_ready))
             => /\ obs'.ret = "false"
                /\ linkCalls' = <<>>
                /\ obs'.throttle = "notcalled"
                /\ last_command_time' = last_command_time]_vars

\* a flip was refused during stabilization although the link was connected and
\* the cooldown had elapsed
C10_Witness ==
    /\ obs.op = "flip_forward" /\ obs.ret = "false"
    /\ is_flying /\ ~imu_ready
    /\ connection_status = "Connected" /\ tello /= None
    /\ now - last_command_time >= command_cooldown

\* continuous mode is active on a connected link
RcLive == rc_mode_active /\ tello /= None /\ connection_status = "Connected"

\* C11: an update_rc_control() made while continuous mode is not active, or
\* with no link handle, or while the status is not Connected, makes no link
\* call and changes no field of the controller, the stored vector included
C11_RcUpdateOnlyWhenLive ==
    [][(Did("update_rc_control") /\ ~RcLive)
          => /\ linkCalls' = <<>>
             /\ UNCHANGED ctrl]_vars

\* forward was held in continuous mode after the status had left Connected:
\* nothing was sent and the stored vector stayed zero
C11_Witness ==
    /\ obs.op = "update_rc_control" /\ obs.arg = {"K_w"}
    /\ rc_mode_active /\ tello /= None /\ connection_status = "Error"
    /\ linkCalls = <<>>
    /\ current_rc_values = ZeroRc

\* C12: an update_rc_control() made while continuous mode is active and
\* connected makes one send_rc_control call, with the vector computed from the
\* held keys, when that vector differs from the stored one, and stores it;
\* when the two are equal it makes no link call and the stored vector stays
C12_RcSendIffChanged ==
    [][(Did("update_rc_control") /\ RcLive)
          => LET v == calculate_rc_values(obs'.arg) IN
             /\ (v /= current_rc_values)
                   => /\ Len(linkCalls') = 1
                      /\ linkCalls'[1].prim = "send_rc_control"
                      /\ linkCalls'[1].args = RcArgs(v)
                      /\ RcArgs(current_rc_values') = linkCalls'[1].args
             /\ (v = current_rc_values)
                   => /\ linkCalls' = <<>>
                      /\ current_rc_values' = current_rc_values]_vars

\* back and rotate-right held at multiplier 3.0 were sent and stored
C12_Witness ==
    /\ obs.op = "update_rc_control" /\ obs.arg = {"K_s", "K_e"}
    /\ rc_mode_active /\ connection_status = "Connected"
    /\ linkCalls = <<Call("send_rc_control", <<0, -100, 0, 100>>, TRUE)>>
    /\ current_rc_values = [left_right |-> 0, forward_back |-> -100, up_down |-> 0, yaw |-> 100]

\* the place of a link primitive in the teardown
TeardownRank(prim) ==
    CASE prim = "send_rc_control" -> 1
      [] prim = "land" -> 2
      [] prim = "end" -> 3
      [] OTHER -> 0

\* C15: disconnect() deactivates continuous mode first (sending the zero
\* vector when the link is connected), then issues the landing command if
\* flying, then releases the link; whatever link call fails it returns
\* without raising, with the status Disconnected and the handle cleared
C15_DisconnectTeardownOrder ==
    [][Did("disconnect")
          => /\ connection_status' = "Disconnected"
             /\ tello' = None
             /\ obs'.ret /= "raise"
             /\ ~rc_mode_active'
             /\ \A i, j \in DOMAIN linkCalls' :
                   i < j => 0 < TeardownRank(linkCalls'[i].prim)
                            /\ TeardownRank(linkCalls'[i].prim) < TeardownRank(linkCalls'[j].prim)
             /\ \A i \in DOMAIN linkCalls' : TeardownRank(linkCalls'[i].prim) > 0
             /\ RcLive => /\ Len(linkCalls') >= 1
                          /\ linkCalls'[1].prim = "send_rc_control"
                          /\ linkCalls'[1].args = <<0, 0, 0, 0>>
             /\ rc_mode_active => current_rc_values' = ZeroRc
             /\ (tello /= None /\ is_flying)
                   => \E i \in DOMAIN linkCalls' : linkCalls'[i].prim = "land"
             /\ (tello /= None /\ ~is_flying)
                   => \E i \in DOMAIN linkCalls' : linkCalls'[i].prim = "end"
             /\ (\E i \in DOMAIN linkCalls' : linkCalls'[i].prim = "land" /\ linkCalls'[i].ok)
                   => \E i \in DOMAIN linkCalls' : linkCalls'[i].prim = "end"]_vars

\* a disconnect() in continuous mode and in flight made the three calls in
\* order although the first and the last of them failed
C15_Witness ==
    /\ obs.op = "disconnect"
    /\ linkCalls = <<Call("send_rc_control", <<0, 0, 0, 0>>, FALSE),
                     Call("land", <<>>, TRUE), Call("end", <<>>, FALSE)>>
    /\ connection_status = "Disconnected" /\ tello = None /\ ~rc_mode_active

\* C18: an emergency_stop() made with a link handle and the status Connected
\* makes one send_rc_control(0, 0, 0, 0) call whatever is_flying, imu_ready,
\* rc_mode_active and the time since the last command are; it does not raise
\* and changes no field of the controller
C18_EmergencyStopAlwaysSends ==
    [][Did("emergency_stop")
          => /\ (tello /= None /\ connection_status = "Connected")
                   => /\ Len(linkCalls') = 1
                      /\ linkCalls'[1].prim = "send_rc_control"
                      /\ linkCalls'[1].args = <<0, 0, 0, 0>>
             /\ obs'.ret /= "raise"
             /\ UNCHANGED ctrl]_vars

\* the stop was sent, and failed, on a grounded drone in continuous mode inside
\* the cooldown window
C18_Witness ==
    /\ obs.op = "emergency_stop"
    /\ linkCalls = <<Call("send_rc_control", <<0, 0, 0, 0>>, FALSE)>>
    /\ ~is_flying /\ ~imu_ready /\ rc_mode_active
    /\ current_rc_values /= ZeroRc
    /\ now - last_command_time < command_cooldown

\* C20: a takeoff() made while grounded during which the link's takeoff
\* primitive did not return (it was not invoked, or it raised) leaves
\* is_flying, imu_ready and takeoff_time unchanged and starts no
\* notify_imu_ready thread
C20_FailedTakeoffChangesNothing ==
    [][(Did("takeoff") /\ ~is_flying
          /\ ~(\E k \in DOMAIN linkCalls' :
                  linkCalls'[k].prim = "takeoff" /\ linkCalls'[k].ok))
          => UNCHANGED <<is_flying, imu_ready, takeoff_time, imu_threads>>]_vars

\* the link's takeoff primitive raised on a connected, grounded drone
C20_Witness ==
    /\ obs.op = "takeoff" /\ obs.throttle = "true" /\ obs.exec = "false"
    /\ linkCalls = <<Call("takeoff", <<>>, FALSE)>>
    /\ ~is_flying /\ ~imu_ready /\ imu_threads = {}

\* the key that raises and the key that lowers each axis
AxisKeys ==
    [left_right   |-> [pos |-> "K_d", neg |-> "K_a"],
     forward_back |-> [pos |-> "K_w", neg |-> "K_s"],
     up_down      |-> [pos |-> "K_i", neg |-> "K_k"],
     yaw          |-> [pos |-> "K_e", neg |-> "K_q"]]

\* 1 when key is held
Pressed(key, active_keys) == IF key \in active_keys THEN 1 ELSE 0

\* the keys held on an axis, counted with their signs
AxisBalance(axis, active_keys) ==
    Pressed(AxisKeys[axis].pos, active_keys) - Pressed(AxisKeys[axis].neg, active_keys)

\* C13 as stated: each axis of the vector calculate_rc_values returns is the
\* signed count of its held keys times min(50 * multiplier, 100), here in
\* hundredths
C13_ContributionUntruncated ==
    obs.op = "calculate_rc_values"
       => \A axis \in DOMAIN AxisKeys :
             obs.ret[axis] * Scale =
                AxisBalance(axis, obs.arg) * Min(50 * speed_multiplier, 100 * Scale)

\* C13 amended: each axis of the vector calculate_rc_values returns is the
\* signed count of its held keys times min(int(50 * multiplier), 100), so
\* that opposing keys give 0; forward alone gives +50 at multiplier 1.0 and
\* +100 at 3.0; and the call changes no field of the controller
C13_ContributionTruncated ==
    /\ [](obs.op = "calculate_rc_values"
            => /\ \A axis \in DOMAIN AxisKeys :
                     obs.ret[axis] = AxisBalance(axis, obs.arg)
                        * Min(Trunc(50 * speed_multiplier, Scale), 100)
               /\ {"K_a", "K_d"} \subseteq obs.arg => obs.ret.left_right = 0
               /\ (obs.arg = {"K_w"} /\ speed_multiplier = 100)
                     => obs.ret = [left_right |-> 0, forward_back |-> 50,
                                   up_down |-> 0, yaw |-> 0]
               /\ (obs.arg = {"K_w"} /\ speed_multiplier = 300)
                     => obs.ret = [left_right |-> 0, forward_back |-> 100,
                                   up_down |-> 0, yaw |-> 0])
    /\ [][Did("calculate_rc_values") => UNCHANGED ctrl]_vars

\* left, right and forward held at multiplier 1.25: lateral 0, longitudinal 62
C13_Witness ==
    /\ obs.op = "calculate_rc_values" /\ obs.arg = {"K_a", "K_d", "K_w"}
    /\ speed_multiplier = 125
    /\ obs.ret = [left_right |-> 0, forward_back |-> 62, up_down |-> 0, yaw |-> 0]

\* C14: whatever multiplier set_speed_multiplier has stored and whatever keys
\* are held, each component of the vector calculate_rc_values returns lies in
\* [-100, 100]
C14_VectorWithinRange ==
    obs.op = "calculate_rc_values"
       => \A axis \in DOMAIN AxisKeys : obs.ret[axis] >= -100 /\ obs.ret[axis] <= 100

\* C19: after clear_command_queue() the queue is empty, and the call reports
\* nothing to clear when the queue was empty and the number of commands the
\* queue held otherwise
C19_ClearReportsCount ==
    obs.op = "clear_command_queue"
       => /\ command_queue = <<>>
          /\ obs.arg = 0 => obs.ret = <<"nothing", 0>>
          /\ obs.arg > 0 => obs.ret = <<"cleared", obs.arg>>

\* C16: the status leaves Disconnected only for Connecting; a connect() whose
\* link connect primitive succeeded leaves the status Connected and returns
\* true after the telemetry refresh, and one whose primitive failed leaves
\* the status Error and returns false
C16_ConnectThroughConnecting ==
    /\ [][connection_status = "Disconnected"
             => connection_status' \in {"Disconnected", "Connecting"}]_vars
    /\ [][(Did("connect") /\ obs'.ret = "true") => connection_status' = "Connected"]_vars
    /\ [][(Did("connect") /\ obs'.ret = "false") => connection_status' = "Error"]_vars

\* C17: no operation the interface invokes raises
C17_NoOperationRaises ==
    obs.op \in {"takeoff", "land", "move", "flip_forward", "emergency_stop", "disconnect"}
       => obs.ret /= "raise"

\* the link's landing primitive was invoked by the step and returned
Landed == \E k \in DOMAIN linkCalls' : linkCalls'[k].prim = "land" /\ linkCalls'[k].ok

\* C21: a land() made while is_flying is false makes no link call; one made
\* while flying asks the throttle (when the link is connected), sets is_flying
\* and imu_ready to false when the landing primitive was invoked and returned,
\* and otherwise (refused by the cooldown, or the primitive raised) leaves the
\* drone flying with imu_ready as it was
C21_LandOnlyOnSuccess ==
    /\ [][(Did("land") /\ ~is_flying)
             => /\ linkCalls' = <<>>
                /\ UNCHANGED ctrl]_vars
    /\ [][(Did("land") /\ is_flying /\ tello /= None /\ connection_status = "Connected")
             => obs'.throttle /= "notcalled"]_vars
    /\ [][(Did("land") /\ is_flying /\ Landed) => (~is_flying' /\ ~imu_ready')]_vars
    /\ [][(Did("land") /\ is_flying /\ ~Landed)
             => (is_flying' /\ imu_ready' = imu_ready)]_vars
    /\ [][(Did("land") /\ is_flying /\ now - lastAccept < command_cooldown
             /\ lastAccept /= NoTime)
             => (linkCalls' = <<>> /\ is_flying')]_vars

\* a land() made in the same half second as the takeoff dispatch was refused
\* by the cooldown and the drone is still flying
C21_Witness ==
    /\ obs.op = "land" /\ obs.throttle = "false" /\ obs.exec = "false"
    /\ linkCalls = <<>>
    /\ is_flying /\ now - takeoff_time < command_cooldown

\* C23: the Timer callback of the fallback pulse, when it fires after the
\* handle was released or after the drone has landed, makes no link call and
\* does not raise
C23_PulseStopSelfGuarding ==
    [][(Did("pulse_stop") /\ (tello = None \/ ~is_flying))
          => (linkCalls' = <<>> /\ obs'.ret /= "raise")]_vars

\* C25: a step that runs on the thread of the event loop invokes no blocking
\* link primitive
C25_UiThreadNeverBlocks ==
    obs.op \in UiThreadOps
       => \A k \in DOMAIN linkCalls : linkCalls[k].prim \notin BlockingPrims

\* C29: a disconnect() made while a link handle exists calls the link's end
\* primitive, also when the landing command fails
C29_DisconnectAlwaysEnds ==
    [][(Did("disconnect") /\ tello /= None)
          => \E k \in DOMAIN linkCalls' : linkCalls'[k].prim = "end"]_vars

\* C30: whenever the status is Connected the controller holds a link handle
C30_ConnectedHasHandle ==
    connection_status = "Connected" => tello /= None

\* C24: start_rc_mode() sets rc_mode_active when it is false, a link handle
\* exists and the status is Connected, and otherwise changes nothing;
\* stop_rc_mode() on an active mode clears rc_mode_active, makes one
\* send_rc_control(0, 0, 0, 0) call when connected and none otherwise, does
\* not raise, and stores the zero vector; on an inactive mode it makes no link
\* call and changes nothing
C24_RcModeStartStop ==
    /\ [][Did("start_rc_mode")
             => /\ linkCalls' = <<>>
                /\ (~rc_mode_active /\ tello /= None /\ connection_status = "Connected")
                      => rc_mode_active'
                /\ ~(~rc_mode_active /\ tello /= None /\ connection_status = "Connected")
                      => UNCHANGED ctrl
                /\ UNCHANGED <<tello, connection_status, is_flying, imu_ready,
                               takeoff_time, last_command_time, speed_multiplier,
                               current_rc_values, command_queue>>]_vars
    /\ [][(Did("stop_rc_mode") /\ rc_mode_active)
             => /\ ~rc_mode_active'
                /\ current_rc_values' = ZeroRc
                /\ obs'.ret /= "raise"
                /\ (tello /= None /\ connection_status = "Connected")
                      => /\ Len(linkCalls') = 1
                         /\ linkCalls'[1].prim = "send_rc_control"
                         /\ linkCalls'[1].args = <<0, 0, 0, 0>>
                /\ ~(tello /= None /\ connection_status = "Connected")
                      => linkCalls' = <<>>]_vars
    /\ [][(Did("stop_rc_mode") /\ ~rc_mode_active)
             => /\ linkCalls' = <<>>
                /\ UNCHANGED ctrl]_vars

\* start_rc_mode() was called on a controller whose connect() had failed:
\* the handle exists, the status is Error and the mode stayed off
C24_Witness ==
    /\ obs.op = "start_rc_mode"
    /\ ~rc_mode_active
    /\ tello /= None /\ connection_status = "Error"

\* the link primitives that go through execute_command
DispatchPrims == {"takeoff", "land", "flip_forward"} \cup MovePrims

\* C26: a link primitive invoked through execute_command is invoked at least
\* command_cooldown after the previous one, whether that one returned or
\* raised; a command that reaches execute_command inside the window invokes
\* nothing, is not queued and leaves no timer or thread behind to retry it
C26_DispatchSpacing ==
    /\ [][(obs'.exec /= "notcalled" /\ lastAccept /= NoTime
             /\ \E k \in DOMAIN linkCalls' : linkCalls'[k].prim \in DispatchPrims)
            => now' - lastAccept >= command_cooldown]_vars
    /\ [][(obs'.exec /= "notcalled" /\ lastAccept /= NoTime
             /\ now' - lastAccept < command_cooldown)
            => /\ linkCalls' = <<>>
               /\ command_queue' = command_queue
               /\ pulse_timers' = pulse_timers
               /\ imu_threads' = imu_threads]_vars

\* a takeoff() was dropped inside the window opened by an earlier takeoff()
\* whose link call had raised
C26_Witness ==
    /\ obs.op = "takeoff" /\ obs.throttle = "false"
    /\ linkCalls = <<>>
    /\ ~is_flying /\ takeoff_time = 0
    /\ lastAccept /= NoTime
    /\ now - lastAccept > 0 /\ now - lastAccept < command_cooldown

\* C27: a can_execute_command() that returns false leaves last_command_time
\* unchanged; one that returns true sets it to the current time, whatever the
\* link call that follows does; and a call made command_cooldown or more
\* after the last accepted one is accepted, whatever calls were refused in
\* between
C27_StampOnAcceptOnly ==
    /\ [][obs'.throttle = "false" => last_command_time' = last_command_time]_vars
    /\ [][obs'.throttle = "true" => last_command_time' = now']_vars
    /\ [][(obs'.throttle /= "notcalled" /\ lastAccept /= NoTime
             /\ now' - lastAccept >= command_cooldown)
            => obs'.throttle = "true"]_vars

\* a land() refused 0.3 s after the takeoff dispatch left the stamp of the
\* takeoff in place
C27_Witness ==
    /\ obs.op = "land" /\ obs.throttle = "false"
    /\ is_flying
    /\ now - takeoff_time = 3
    /\ last_command_time = takeoff_time

\* the components of a control vector that are not zero
NonZero(args) == {j \in DOMAIN args : args[j] /= 0}

Abs(n) == IF n >= 0 THEN n ELSE -n

\* C28: a movement request that takes the fallback path makes one
\* send_rc_control call, non-zero on one axis with magnitude
\* min(int(50 * speed_multiplier), 100), and when that call returns a Timer
\* is pending for 0.3 s later (0.4 s when the multiplier exceeds 1.0); the
\* Timer fires no earlier than that and, the handle still being there, calls
\* send_rc_control(0, 0, 0, 0); and a pending Timer does fire
C28_PulseIsTimedBurst ==
    /\ [][(Did("move") /\ obs'.exec = "notcalled" /\ linkCalls' /= <<>>)
            => /\ Len(linkCalls') = 1
               /\ linkCalls'[1].prim = "send_rc_control"
               /\ Cardinality(NonZero(linkCalls'[1].args)) = 1
               /\ \A j \in NonZero(linkCalls'[1].args) :
                     Abs(linkCalls'[1].args[j]) =
                        Min((50 * speed_multiplier) \div Scale, 100)
               /\ linkCalls'[1].ok
                     => (now + (IF speed_multiplier > Scale THEN 4 ELSE 3)) \in pulse_timers']_vars
    /\ [][Did("pulse_stop")
            => /\ \E due \in pulse_timers : due \notin pulse_timers' /\ now >= due
               /\ tello /= None
                     => /\ Len(linkCalls') = 1
                        /\ linkCalls'[1].prim = "send_rc_control"
                        /\ linkCalls'[1].args = <<0, 0, 0, 0>>]_vars
    /\ ((pulse_timers /= {} /\ tello /= None)
           ~> ((obs.op = "pulse_stop" /\ Len(linkCalls) = 1) \/ tello = None))

\* the Timer of a pulse fired on a connected, flying drone and the zero
\* vector went out
C28_Witness ==
    /\ obs.op = "pulse_stop"
    /\ linkCalls = <<Call("send_rc_control", <<0, 0, 0, 0>>, TRUE)>>
    /\ connection_status = "Connected" /\ is_flying
    /\ pulse_timers = {}

\* C22: speed_multiplier is 3.0 whenever a shift key is held and 1.0
\* whenever none is
C22_BoostWhileShiftHeld ==
    /\ (ui.active_keys \cap ShiftKeys /= {}) => speed_multiplier = 300
    /\ (ui.active_keys \cap ShiftKeys = {}) => speed_multiplier = 100

-----------------------------------------------------------------------------
(* The stored control vector, the flight state after disconnect() and the  *)
(* fallback pulse against the throttle                                     *)

\* the calls of send_rc_control, among calls, that returned
Delivered(calls) ==
    {i \in 1..Len(calls) : calls[i].prim = "send_rc_control" /\ calls[i].ok}

\* C31: while continuous mode is active the stored vector current_rc_values is
\* the last vector delivered to the link: a step that leaves the mode active
\* delivers no vector other than the stored one, and changes the stored vector
\* only by delivering it
C31_StoredIsLastDelivered ==
    [][(rc_mode_active /\ rc_mode_active') =>
          /\ \A i \in Delivered(linkCalls') :
                linkCalls'[i].args = RcArgs(current_rc_values')
          /\ (current_rc_values' /= current_rc_values) =>
                Delivered(linkCalls') /= {}]_vars

\* C32: after disconnect() of a flying drone the flight state is Grounded:
\* is_flying and imu_ready are both false
C32_DisconnectGrounds ==
    [][(obs'.op = "disconnect" /\ is_flying) => (~is_flying' /\ ~imu_ready')]_vars

\* C33: the fallback pulse path neither consults nor updates the throttle:
\* every movement request made with a connected handle during the
\* stabilization window sends its pulse whatever the time since the last
\* dispatch, without calling can_execute_command and without changing
\* last_command_time; and the first movement request after the window, no
\* command having been dispatched since the takeoff, is dispatched
C33_PulseBypassesThrottle ==
    [][/\ (/\ obs'.op = "move"
           /\ tello /= None /\ connection_status = "Connected"
           /\ is_flying /\ ~imu_ready
           /\ now - takeoff_time < imu_stabilization_delay)
          => /\ Len(linkCalls') = 1
             /\ linkCalls'[1].prim = "send_rc_control"
             /\ obs'.throttle = "notcalled"
             /\ last_command_time' = last_command_time
             /\ lastAccept' = lastAccept
       /\ (/\ obs'.op = "move"
           /\ tello /= None /\ connection_status = "Connected"
           /\ is_flying
           /\ now - takeoff_time >= imu_stabilization_delay
           /\ last_command_time = takeoff_time)
          => /\ obs'.throttle = "true"
             /\ Len(linkCalls') = 1
             /\ linkCalls'[1].prim \in MovePrims]_vars

\* a pulse was sent less than the cooldown after the last dispatch
C33_Witness ==
    /\ obs.op = "move" /\ obs.ret = "true" /\ obs.exec = "notcalled"
    /\ Len(linkCalls) = 1
    /\ now - last_command_time < command_cooldown
    /\ now > last_command_time

====
